---- MODULE Spec2Model ----
(***************************************************************************)
(* Selfish-mining simulator of scripts/simulate-51-attack.py               *)
(* (class SelfishMiningAttack, driven by main()).                          *)
(*                                                                         *)
(* The simulator object is the record `sim`; one action per step of        *)
(* run_simulation: initialize_genesis, one loop iteration (attacker or     *)
(* honest), and _print_results.                                            *)
(*                                                                         *)
(* Numbers.  attacker_hashrate is a float in the source; here it is the    *)
(* numerator of a fraction over HashScale, and random.random() is the      *)
(* numerator of a fraction in [0,1) over the same HashScale.  Reward       *)
(* figures of the report are kept in the same unit (1/HashScale block).    *)
(***************************************************************************)
EXTENDS Integers, Sequences, FiniteSets, TLC

\* config  SimulationConfig built by main()
\* sim     the SelfishMiningAttack object
\* round   loop variable of run_simulation (iterations completed)
\* pc      position in main(): "constructed", "loop", "done", "error";
\*         "fork_call", "fork_done" when _find_fork_point is run on its own
\* now     int(time.time()), relative to the start of the run
\* actors  who was drawn in each iteration so far ("A" or "H")
\* report  figures computed by _print_results
\* ret     value returned by _find_fork_point when it is run on its own
\* run2    a second SelfishMiningAttack object and its report, used when two
\*         runs of main() on the same configuration and draws are compared
VARIABLES config, sim, round, pc, now, actors, report, ret, run2

vars == <<config, sim, round, pc, now, actors, report, ret, run2>>

----------------------------------------------------------------------------
(* Bounds of the model *)

\* attacker_hashrate = n / HashScale, random.random() = r / HashScale
HashScale == 2
\* largest --blocks value explored
MaxBlocks == 3
\* nonces are drawn from 0..MaxNonce (source: 0..2**32)
MaxNonce == 1
\* int(time.time()) ranges over 0..MaxClock, relative to the start of the run
MaxClock == 1
\* _find_fork_point on its own: chains of up to PureLen blocks over PureIds ids
PureLen == 4
PureIds == 3

----------------------------------------------------------------------------
(* Program constants *)

NumHonestMiners == 3
Difficulty == 16
GenesisTimestamp == 1763452800
\* 0xDEADBEEF lies in the range of randint(0, 2**32); it is kept as a member
\* of the model's nonce range.
GenesisNonce == 0

\* "genesis_hash" and "0" * 64; a digest is the sequence of the hashed fields
GenesisHash == <<0>>
ZeroHash == <<>>

HonestIds == 0 .. (NumHonestMiners - 1)
\* f"HONEST_{i}" for i in range(3)
HonestNames == <<"HONEST_0", "HONEST_1", "HONEST_2">>
HonestName(i) == HonestNames[i + 1]
AttackerName == "ATTACKER"
GenesisName == "GENESIS"

Nonces == 0 .. MaxNonce
Clock == 0 .. MaxClock
\* values of random.random(), in [0, 1)
Draws == 0 .. (HashScale - 1)
\* --attacker-hashrate: argparse accepts any float
Hashrates == (0 - 1) .. (HashScale + 1)
\* --blocks: argparse accepts any int
BlockCounts == (0 - 1) .. MaxBlocks

Min(a, b) == IF a < b THEN a ELSE b

----------------------------------------------------------------------------
(* MiningSimulator.mine_block *)

\* f"{height}{prev_hash}{int(time.time())}{nonce}": the miner is not hashed
BlockData(height, prev_hash, t, nonce) == <<height>> \o prev_hash \o <<t, nonce>>

\* sha256(...).hexdigest(), taken to be collision-free: the digest stands for
\* its preimage
Sha256(data) == data

\* t1 is the clock read that enters the hash, t2 the one stored in the block
MineBlock(miner_id, height, prev_hash, difficulty, nonce, t1, t2) ==
    [ height       |-> height,
      hash         |-> Sha256(BlockData(height, prev_hash, t1, nonce)),
      prev_hash    |-> prev_hash,
      timestamp    |-> t2,
      difficulty   |-> difficulty,
      nonce        |-> nonce,
      transactions |-> <<>>,
      miner        |-> miner_id ]

----------------------------------------------------------------------------
(* SelfishMiningAttack *)

Genesis ==
    [ height       |-> 0,
      hash         |-> GenesisHash,
      prev_hash    |-> ZeroHash,
      timestamp    |-> GenesisTimestamp,
      difficulty   |-> Difficulty,
      nonce        |-> GenesisNonce,
      transactions |-> <<>>,
      miner        |-> GenesisName ]

\* __init__: empty chains, zero statistics
NewSimulator ==
    [ public_chain                  |-> <<>>,
      attacker_chain                |-> <<>>,
      attacker_blocks_mined         |-> 0,
      honest_blocks_mined           |-> 0,
      attacker_blocks_in_main_chain |-> 0,
      honest_blocks_in_main_chain   |-> 0,
      reorgs                        |-> 0 ]

InitializeGenesisOf(s) ==
    [s EXCEPT !.public_chain = <<Genesis>>, !.attacker_chain = <<Genesis>>]

Last(chain) == chain[Len(chain)]

\* len([b for b in chain if b.miner == "ATTACKER"])
AttackerBlocksIn(chain) ==
    Cardinality({i \in 1 .. Len(chain) : chain[i].miner = AttackerName})

RECURSIVE ForkScan(_, _, _)
\* the for loop of _find_fork_point, i is the 0-based loop index
ForkScan(public, private, i) ==
    IF i >= Min(Len(public), Len(private))
    THEN Min(Len(public), Len(private))
    ELSE IF public[i + 1].hash # private[i + 1].hash
         THEN i
         ELSE ForkScan(public, private, i + 1)

\* variant: the search starts after the genesis slot
FindForkPoint_SkipGenesis(public, private) == ForkScan(public, private, 1)

FindForkPoint(public, private) == ForkScan(public, private, 0)

\* variant: the abandoning attacker keeps its private chain
AttackerReleasesChain_NoRestart(s) ==
    IF Len(s.attacker_chain) > Len(s.public_chain)
    THEN LET fork_point == FindForkPoint(s.public_chain, s.attacker_chain)
             attacker_blocks_won == Len(s.attacker_chain) - fork_point
         IN  [s EXCEPT !.reorgs = @ + 1,
                       !.attacker_blocks_in_main_chain = @ + attacker_blocks_won,
                       !.public_chain = s.attacker_chain]
    ELSE LET honest_blocks_won ==
                 Len(s.public_chain) - AttackerBlocksIn(s.public_chain)
         IN  [s EXCEPT !.honest_blocks_in_main_chain = honest_blocks_won]

\* variant: on abandonment the honest figure counts the public blocks from
\* the fork point on
AttackerReleasesChain_SinceFork(s) ==
    IF Len(s.attacker_chain) > Len(s.public_chain)
    THEN LET fork_point == FindForkPoint(s.public_chain, s.attacker_chain)
             attacker_blocks_won == Len(s.attacker_chain) - fork_point
         IN  [s EXCEPT !.reorgs = @ + 1,
                       !.attacker_blocks_in_main_chain = @ + attacker_blocks_won,
                       !.public_chain = s.attacker_chain]
    ELSE LET honest_blocks_won ==
                 Len(s.public_chain)
                     - FindForkPoint(s.public_chain, s.attacker_chain)
         IN  [s EXCEPT !.honest_blocks_in_main_chain = honest_blocks_won,
                       !.attacker_chain = s.public_chain]

\* variant: a release overwrites the attacker's main-chain figure
AttackerReleasesChain_Overwrite(s) ==
    IF Len(s.attacker_chain) > Len(s.public_chain)
    THEN LET fork_point == FindForkPoint(s.public_chain, s.attacker_chain)
             attacker_blocks_won == Len(s.attacker_chain) - fork_point
         IN  [s EXCEPT !.reorgs = @ + 1,
                       !.attacker_blocks_in_main_chain = attacker_blocks_won,
                       !.public_chain = s.attacker_chain]
    ELSE LET honest_blocks_won ==
                 Len(s.public_chain) - AttackerBlocksIn(s.public_chain)
         IN  [s EXCEPT !.honest_blocks_in_main_chain = honest_blocks_won,
                       !.attacker_chain = s.public_chain]

\* variant: on abandonment the honest figure is added to, not replaced
AttackerReleasesChain_Accumulate(s) ==
    IF Len(s.attacker_chain) > Len(s.public_chain)
    THEN LET fork_point == FindForkPoint(s.public_chain, s.attacker_chain)
             attacker_blocks_won == Len(s.attacker_chain) - fork_point
         IN  [s EXCEPT !.reorgs = @ + 1,
                       !.attacker_blocks_in_main_chain = @ + attacker_blocks_won,
                       !.public_chain = s.attacker_chain]
    ELSE LET honest_blocks_won ==
                 Len(s.public_chain) - AttackerBlocksIn(s.public_chain)
         IN  [s EXCEPT !.honest_blocks_in_main_chain = @ + honest_blocks_won,
                       !.attacker_chain = s.public_chain]

\* variant: a private chain of equal length wins
AttackerReleasesChain_TieWins(s) ==
    IF Len(s.attacker_chain) >= Len(s.public_chain)
    THEN LET fork_point == FindForkPoint(s.public_chain, s.attacker_chain)
             attacker_blocks_won == Len(s.attacker_chain) - fork_point
         IN  [s EXCEPT !.reorgs = @ + 1,
                       !.attacker_blocks_in_main_chain = @ + attacker_blocks_won,
                       !.public_chain = s.attacker_chain]
    ELSE LET honest_blocks_won ==
                 Len(s.public_chain) - AttackerBlocksIn(s.public_chain)
         IN  [s EXCEPT !.honest_blocks_in_main_chain = honest_blocks_won,
                       !.attacker_chain = s.public_chain]

\* variant: the abandonment leaves the genesis block out of the honest count
AttackerReleasesChain_SkipGenesis(s) ==
    IF Len(s.attacker_chain) > Len(s.public_chain)
    THEN LET fork_point == FindForkPoint(s.public_chain, s.attacker_chain)
             attacker_blocks_won == Len(s.attacker_chain) - fork_point
         IN  [s EXCEPT !.reorgs = @ + 1,
                       !.attacker_blocks_in_main_chain = @ + attacker_blocks_won,
                       !.public_chain = s.attacker_chain]
    ELSE LET honest_blocks_won ==
                 Len(s.public_chain) - 1 - AttackerBlocksIn(s.public_chain)
         IN  [s EXCEPT !.honest_blocks_in_main_chain = honest_blocks_won,
                       !.attacker_chain = s.public_chain]

AttackerReleasesChain(s) ==
    IF Len(s.attacker_chain) > Len(s.public_chain)
    THEN LET fork_point == FindForkPoint(s.public_chain, s.attacker_chain)
             attacker_blocks_won == Len(s.attacker_chain) - fork_point
         IN  [s EXCEPT !.reorgs = @ + 1,
                       !.attacker_blocks_in_main_chain = @ + attacker_blocks_won,
                       !.public_chain = s.attacker_chain]
    ELSE LET honest_blocks_won ==
                 Len(s.public_chain) - AttackerBlocksIn(s.public_chain)
         IN  [s EXCEPT !.honest_blocks_in_main_chain = honest_blocks_won,
                       !.attacker_chain = s.public_chain]

\* variant: a withheld block is not counted as mined
AttackerMinesBlock_Uncounted(s, nonce, t1, t2) ==
    LET tip == Last(s.attacker_chain)
        new_block == MineBlock(AttackerName, tip.height + 1, tip.hash,
                               Difficulty, nonce, t1, t2)
    IN  [s EXCEPT !.attacker_chain = Append(@, new_block)]

\* variant: the attacker's block is broadcast as well as kept
AttackerMinesBlock_Broadcast(s, nonce, t1, t2) ==
    LET tip == Last(s.attacker_chain)
        new_block == MineBlock(AttackerName, tip.height + 1, tip.hash,
                               Difficulty, nonce, t1, t2)
    IN  [s EXCEPT !.attacker_chain = Append(@, new_block),
                  !.public_chain = Append(@, new_block),
                  !.attacker_blocks_mined = @ + 1]

\* variant: the attacker's block names the public tip as its parent
AttackerMinesBlock_PublicParent(s, nonce, t1, t2) ==
    LET tip == Last(s.attacker_chain)
        new_block == MineBlock(AttackerName, tip.height + 1,
                               Last(s.public_chain).hash,
                               Difficulty, nonce, t1, t2)
    IN  [s EXCEPT !.attacker_chain = Append(@, new_block),
                  !.attacker_blocks_mined = @ + 1]

\* variant: after an abandonment the two chains are one list, so the
\* attacker's block lands in both
AttackerMinesBlock_Aliased(s, nonce, t1, t2) ==
    LET tip == Last(s.attacker_chain)
        new_block == MineBlock(AttackerName, tip.height + 1, tip.hash,
                               Difficulty, nonce, t1, t2)
    IN  IF s.attacker_chain = s.public_chain /\ Len(s.public_chain) > 1
        THEN [s EXCEPT !.attacker_chain = Append(@, new_block),
                       !.public_chain = Append(@, new_block),
                       !.attacker_blocks_mined = @ + 1]
        ELSE [s EXCEPT !.attacker_chain = Append(@, new_block),
                       !.attacker_blocks_mined = @ + 1]

AttackerMinesBlock(s, nonce, t1, t2) ==
    LET tip == Last(s.attacker_chain)
        new_block == MineBlock(AttackerName, tip.height + 1, tip.hash,
                               Difficulty, nonce, t1, t2)
    IN  [s EXCEPT !.attacker_chain = Append(@, new_block),
                  !.attacker_blocks_mined = @ + 1]

\* variant: the honest block takes its height from the private tip
HonestMinerMinesBlock_PrivateTip(s, i, nonce, t1, t2) ==
    LET tip == Last(s.public_chain)
        new_block == MineBlock(HonestName(i), Last(s.attacker_chain).height + 1,
                               tip.hash, Difficulty, nonce, t1, t2)
        appended == [s EXCEPT !.public_chain = Append(@, new_block),
                              !.honest_blocks_mined = @ + 1]
    IN  IF Len(appended.public_chain) >= Len(appended.attacker_chain)
        THEN AttackerReleasesChain(appended)
        ELSE appended

\* variant: the honest round never runs the release routine
HonestMinerMinesBlock_NoRelease(s, i, nonce, t1, t2) ==
    LET tip == Last(s.public_chain)
        new_block == MineBlock(HonestName(i), tip.height + 1, tip.hash,
                               Difficulty, nonce, t1, t2)
    IN  [s EXCEPT !.public_chain = Append(@, new_block),
                  !.honest_blocks_mined = @ + 1]

\* variant: the release routine runs after every honest block
HonestMinerMinesBlock_AlwaysRelease(s, i, nonce, t1, t2) ==
    LET tip == Last(s.public_chain)
        new_block == MineBlock(HonestName(i), tip.height + 1, tip.hash,
                               Difficulty, nonce, t1, t2)
        appended == [s EXCEPT !.public_chain = Append(@, new_block),
                              !.honest_blocks_mined = @ + 1]
    IN  AttackerReleasesChain(appended)

HonestMinerMinesBlock(s, i, nonce, t1, t2) ==
    LET tip == Last(s.public_chain)
        new_block == MineBlock(HonestName(i), tip.height + 1, tip.hash,
                               Difficulty, nonce, t1, t2)
        appended == [s EXCEPT !.public_chain = Append(@, new_block),
                              !.honest_blocks_mined = @ + 1]
    IN  IF Len(appended.public_chain) >= Len(appended.attacker_chain)
        THEN AttackerReleasesChain(appended)
        ELSE appended

\* random_value < self.config.attacker_hashrate
AttackerDrawn(r, cfg) == r < cfg.attacker_hashrate

\* the float division profit / honest_reward raises ZeroDivisionError at 0
ReportRaises(expected) == expected = 0

\* variant: the attacker's reward is read from the mined counter
PrintResultsOf_CountsMined(s, cfg) ==
    LET expected_attacker_reward == cfg.attacker_hashrate * cfg.total_blocks
        actual_attacker_reward == s.attacker_blocks_mined
        profit == actual_attacker_reward * HashScale - expected_attacker_reward
    IN  [ computed |-> TRUE,
          expected_attacker_reward |-> expected_attacker_reward,
          actual_attacker_reward   |-> actual_attacker_reward,
          profit  |-> profit,
          verdict |-> IF expected_attacker_reward = 0 THEN "none"
                      ELSE IF profit > 0 THEN "profitable"
                      ELSE "not profitable" ]

\* _print_results; rewards in units of 1/HashScale block
PrintResultsOf(s, cfg) ==
    LET expected_attacker_reward == cfg.attacker_hashrate * cfg.total_blocks
        actual_attacker_reward == AttackerBlocksIn(s.public_chain)
        profit == actual_attacker_reward * HashScale - expected_attacker_reward
    IN  [ computed |-> TRUE,
          expected_attacker_reward |-> expected_attacker_reward,
          actual_attacker_reward   |-> actual_attacker_reward,
          profit  |-> profit,
          verdict |-> IF ReportRaises(expected_attacker_reward) THEN "none"
                      ELSE IF profit > 0 THEN "profitable"
                      ELSE "not profitable" ]

NoReport ==
    [ computed |-> FALSE,
      expected_attacker_reward |-> 0,
      actual_attacker_reward   |-> 0,
      profit  |-> 0,
      verdict |-> "none" ]

\* the second object before its run: as built by __init__, no report
NoSecondRun == [sim |-> NewSimulator, report |-> NoReport]

----------------------------------------------------------------------------
(* main() and run_simulation *)

\* main(): SimulationConfig built from the arguments, no validation;
\* SelfishMiningAttack(config)
Init ==
    /\ config \in [attacker_hashrate : Hashrates, total_blocks : BlockCounts]
    /\ sim = NewSimulator
    /\ round = 0
    /\ pc = "constructed"
    /\ now = 0
    /\ actors = <<>>
    /\ report = NoReport
    /\ ret = 0
    /\ run2 = NoSecondRun

InitializeGenesis ==
    /\ pc = "constructed"
    /\ sim' = InitializeGenesisOf(sim)
    /\ pc' = "loop"
    /\ UNCHANGED <<config, round, now, actors, report, ret, run2>>

\* one loop iteration in which the attacker is drawn
AttackerRound ==
    /\ pc = "loop"
    /\ round < config.total_blocks
    /\ \E r \in Draws : AttackerDrawn(r, config)
    /\ \E nonce \in Nonces, t1 \in Clock, t2 \in Clock :
          /\ now <= t1 /\ t1 <= t2
          /\ sim' = AttackerMinesBlock(sim, nonce, t1, t2)
          /\ now' = t2
    /\ round' = round + 1
    /\ actors' = Append(actors, "A")
    /\ UNCHANGED <<config, pc, report, ret, run2>>

\* one loop iteration in which an honest miner is drawn
HonestRound ==
    /\ pc = "loop"
    /\ round < config.total_blocks
    /\ \E r \in Draws : ~AttackerDrawn(r, config)
    /\ \E i \in HonestIds, nonce \in Nonces, t1 \in Clock, t2 \in Clock :
          /\ now <= t1 /\ t1 <= t2
          /\ sim' = HonestMinerMinesBlock(sim, i, nonce, t1, t2)
          /\ now' = t2
    /\ round' = round + 1
    /\ actors' = Append(actors, "H")
    /\ UNCHANGED <<config, pc, report, ret, run2>>

\* loop exhausted: _print_results
PrintResults ==
    /\ pc = "loop"
    /\ round >= config.total_blocks
    /\ report' = PrintResultsOf(sim, config)
    /\ pc' = IF ReportRaises(report'.expected_attacker_reward)
             THEN "error" ELSE "done"
    /\ UNCHANGED <<config, sim, round, now, actors, ret, run2>>

Next ==
    \/ InitializeGenesis
    \/ AttackerRound
    \/ HonestRound
    \/ PrintResults

Spec == Init /\ [][Next]_vars

----------------------------------------------------------------------------
(* _find_fork_point run on its own, on any two chains *)

\* a block known only by its id k; the other fields do not enter the search
PureBlock(k) ==
    [ height       |-> 0,
      hash         |-> <<k>>,
      prev_hash    |-> ZeroHash,
      timestamp    |-> 0,
      difficulty   |-> Difficulty,
      nonce        |-> 0,
      transactions |-> <<>>,
      miner        |-> HonestName(0) ]

PureBlocks == {PureBlock(k) : k \in 1 .. PureIds}

PureChains == UNION {[1 .. n -> PureBlocks] : n \in 0 .. PureLen}

InitFork ==
    /\ config = [attacker_hashrate |-> 0, total_blocks |-> 0]
    /\ \E public \in PureChains, private \in PureChains :
          sim = [NewSimulator EXCEPT !.public_chain = public,
                                     !.attacker_chain = private]
    /\ round = 0
    /\ pc = "fork_call"
    /\ now = 0
    /\ actors = <<>>
    /\ report = NoReport
    /\ ret = 0
    /\ run2 = NoSecondRun

CallFindForkPoint ==
    /\ pc = "fork_call"
    /\ ret' = FindForkPoint(sim.public_chain, sim.attacker_chain)
    /\ pc' = "fork_done"
    /\ UNCHANGED <<config, sim, round, now, actors, report, run2>>

NextFork == CallFindForkPoint

SpecFork == InitFork /\ [][NextFork]_vars

----------------------------------------------------------------------------
(* Two runs of main() on the same configuration, fed the same random draws *)

\* The draws of the random module (random.random(), random.choice, randint)
\* are the same in both runs; int(time.time()) is not a draw of the random
\* module.  The first run reads the clock as in Spec; the second run is the
\* run that completes within the second in which it started (every read
\* returns 0).  Figures that agree between every run and this one agree
\* between any two runs.
\* both objects as built by __init__; configurations with no attacker draw,
\* with both kinds of draw and with no honest draw, over one round and over
\* MaxBlocks rounds
InitPair ==
    /\ config \in [attacker_hashrate : {0, 1, HashScale},
                   total_blocks : {1, MaxBlocks}]
    /\ sim = NewSimulator
    /\ round = 0
    /\ pc = "constructed"
    /\ now = 0
    /\ actors = <<>>
    /\ report = NoReport
    /\ ret = 0
    /\ run2 = NoSecondRun

PairInitializeGenesis ==
    /\ pc = "constructed"
    /\ sim' = InitializeGenesisOf(sim)
    /\ run2' = [run2 EXCEPT !.sim = InitializeGenesisOf(@)]
    /\ pc' = "loop"
    /\ UNCHANGED <<config, round, now, actors, report, ret>>

PairAttackerRound ==
    /\ pc = "loop"
    /\ round < config.total_blocks
    /\ \E r \in Draws : AttackerDrawn(r, config)
    /\ \E nonce \in Nonces, t1 \in Clock, t2 \in Clock :
          /\ now <= t1 /\ t1 <= t2
          /\ sim' = AttackerMinesBlock(sim, nonce, t1, t2)
          /\ run2' = [run2 EXCEPT !.sim = AttackerMinesBlock(@, nonce, 0, 0)]
          /\ now' = t2
    /\ round' = round + 1
    /\ actors' = Append(actors, "A")
    /\ UNCHANGED <<config, pc, report, ret>>

PairHonestRound ==
    /\ pc = "loop"
    /\ round < config.total_blocks
    /\ \E r \in Draws : ~AttackerDrawn(r, config)
    /\ \E i \in HonestIds, nonce \in Nonces, t1 \in Clock, t2 \in Clock :
          /\ now <= t1 /\ t1 <= t2
          /\ sim' = HonestMinerMinesBlock(sim, i, nonce, t1, t2)
          /\ run2' = [run2 EXCEPT !.sim = HonestMinerMinesBlock(@, i, nonce, 0, 0)]
          /\ now' = t2
    /\ round' = round + 1
    /\ actors' = Append(actors, "H")
    /\ UNCHANGED <<config, pc, report, ret>>

PairPrintResults ==
    /\ pc = "loop"
    /\ round >= config.total_blocks
    /\ report' = PrintResultsOf(sim, config)
    /\ run2' = [run2 EXCEPT !.report = PrintResultsOf(run2.sim, config)]
    /\ pc' = IF ReportRaises(report'.expected_attacker_reward)
             THEN "error" ELSE "done"
    /\ UNCHANGED <<config, sim, round, now, actors, ret>>

NextPair ==
    \/ PairInitializeGenesis
    \/ PairAttackerRound
    \/ PairHonestRound
    \/ PairPrintResults

SpecPair == InitPair /\ [][NextPair]_vars

----------------------------------------------------------------------------
(* _attacker_releases_chain called on its own while the private chain leads *)

\* A run on a configuration in which both actors are drawn, during which
\* _attacker_releases_chain may be called directly between two iterations
\* whenever the private chain is strictly longer than the public chain.
InitRelease ==
    /\ config = [attacker_hashrate |-> 1, total_blocks |-> MaxBlocks]
    /\ sim = NewSimulator
    /\ round = 0
    /\ pc = "constructed"
    /\ now = 0
    /\ actors = <<>>
    /\ report = NoReport
    /\ ret = 0
    /\ run2 = NoSecondRun

CallAttackerReleasesChain ==
    /\ pc = "loop"
    /\ Len(sim.attacker_chain) > Len(sim.public_chain)
    /\ sim' = AttackerReleasesChain(sim)
    /\ UNCHANGED <<config, round, pc, now, actors, report, ret, run2>>

NextRelease ==
    \/ InitializeGenesis
    \/ AttackerRound
    \/ HonestRound
    \/ CallAttackerReleasesChain

SpecRelease == InitRelease /\ [][NextRelease]_vars

----------------------------------------------------------------------------
(* Properties *)

public == sim.public_chain
private == sim.attacker_chain
Started == pc # "constructed"
Finished == pc \in {"done", "error"}

\* a configuration the interface accepts: hashrate in [0,1], at least one round
\* (the number of honest miners is fixed at 3 in the source)
ValidConfig(cfg) ==
    /\ 0 <= cfg.attacker_hashrate
    /\ cfg.attacker_hashrate <= HashScale
    /\ cfg.total_blocks >= 1

\* C1: with the draws ATTACKER, ATTACKER, HONEST, HONEST, HONEST the private
\* chain has 3 blocks and the public chain 1 after round 2; after round 3 the
\* public chain is the 3-block private chain, with one reorg and 2 attacker
\* blocks in the main chain; after round 5 the public chain has 5 blocks and
\* there was one reorg.
C1_ReorgScenario ==
    /\ actors = <<"A", "A">> => Len(private) = 3 /\ Len(public) = 1
    /\ actors = <<"A", "A", "H">> =>
          /\ public = private
          /\ Len(public) = 3
          /\ sim.reorgs = 1
          /\ sim.attacker_blocks_in_main_chain = 2
    /\ actors = <<"A", "A", "H", "H", "H">> =>
          Len(public) = 5 /\ sim.reorgs = 1

\* C2: attacker_blocks_mined + honest_blocks_mined equals the round number in
\* every state, and each round adds exactly 1 to exactly one of the two.
C2_CounterConservation ==
    /\ [](sim.attacker_blocks_mined + sim.honest_blocks_mined = round)
    /\ [][round' # round =>
            /\ round' = round + 1
            /\ \/ /\ sim'.attacker_blocks_mined = sim.attacker_blocks_mined + 1
                  /\ sim'.honest_blocks_mined = sim.honest_blocks_mined
               \/ /\ sim'.attacker_blocks_mined = sim.attacker_blocks_mined
                  /\ sim'.honest_blocks_mined = sim.honest_blocks_mined + 1]_vars

\* three rounds done, two withheld attacker blocks counted although none of
\* them is in the public chain
C2_Witness ==
    /\ round = 3
    /\ sim.attacker_blocks_mined = 2
    /\ sim.honest_blocks_mined = 1
    /\ AttackerBlocksIn(public) = 0

\* C3: with attacker_hashrate = 0 the private chain equals the public chain
\* after every round, no reorg happens, and once the loop is over the public
\* chain has total_blocks + 1 blocks.
C3_NoAttacker ==
    (config.attacker_hashrate = 0 /\ config.total_blocks >= 1 /\ Started) =>
        /\ private = public
        /\ sim.reorgs = 0
        /\ Len(public) = round + 1
        /\ Finished => Len(public) = config.total_blocks + 1

C3_Witness ==
    /\ config.attacker_hashrate = 0
    /\ config.total_blocks >= 2
    /\ Finished
    /\ Len(public) = config.total_blocks + 1
    /\ private = public

\* C4: with attacker_hashrate = 1 the private chain has round + 1 blocks, the
\* public chain stays [genesis], no honest round runs (so the release routine,
\* which leaves reorgs > 0 or honest_blocks_in_main_chain > 0, is never
\* entered), and the report counts no attacker block in the public chain.
C4_FullControl ==
    (config.attacker_hashrate = HashScale /\ config.total_blocks >= 1 /\ Started) =>
        /\ Len(private) = round + 1
        /\ public = <<Genesis>>
        /\ sim.honest_blocks_mined = 0
        /\ sim.honest_blocks_in_main_chain = 0
        /\ sim.reorgs = 0
        /\ sim.attacker_blocks_in_main_chain = 0
        /\ AttackerBlocksIn(public) = 0
        /\ Finished => /\ round = config.total_blocks
                       /\ report.actual_attacker_reward = 0

C4_Witness ==
    /\ config.attacker_hashrate = HashScale
    /\ config.total_blocks >= 2
    /\ Finished
    /\ Len(private) = config.total_blocks + 1
    /\ sim.attacker_blocks_mined = config.total_blocks

\* C5: a malformed configuration is rejected before the loop: no step is
\* taken on it, chains and counters stay as constructed, no report is made.
C5_InvalidConfigRejected ==
    ~ValidConfig(config) =>
        /\ pc = "constructed"
        /\ sim = NewSimulator
        /\ round = 0
        /\ ~report.computed

\* C6: on a valid configuration the run makes exactly total_blocks rounds and
\* its report raises no error.
C6_TotalOnValidConfig ==
    ValidConfig(config) =>
        /\ pc # "error"
        /\ Finished => round = config.total_blocks

\* C7: both chains start with the genesis block, the fork point is at least 1
\* and the two chains hold the same block at every index below the fork point.
C7_ChainPrefix ==
    Started =>
        /\ public[1] = Genesis
        /\ private[1] = Genesis
        /\ FindForkPoint(public, private) >= 1
        /\ \A i \in 1 .. FindForkPoint(public, private) : public[i] = private[i]

HeightsAscend(chain) ==
    /\ chain[1].height = 0
    /\ \A i \in 2 .. Len(chain) : chain[i].height = chain[i - 1].height + 1

\* C8: in both chains the first block has height 0 and every other block has
\* the height of its predecessor plus 1, also right after a chain was
\* replaced by a copy of the other.
C8_HeightMonotonic ==
    Started => HeightsAscend(public) /\ HeightsAscend(private)

\* the attacker's chain [genesis, attacker block] was just replaced by a copy
\* of the public chain that caught up with it
C8_Witness ==
    /\ actors = <<"A", "H">>
    /\ private = public
    /\ Len(public) = 2
    /\ private[2].miner # AttackerName

\* C9: _find_fork_point returns the smallest index below the shorter length
\* at which the hashes differ, the shorter length if there is none; on
\* [G,A,B,C1] and [G,A,B,C2] it returns 3.
C9_ForkPoint ==
    /\ pc = "fork_done" =>
          LET shorter == Min(Len(public), Len(private))
              differ == {i \in 0 .. (shorter - 1) :
                            public[i + 1].hash # private[i + 1].hash}
          IN  IF differ = {}
              THEN ret = shorter
              ELSE ret \in differ /\ \A j \in differ : ret <= j
    /\ FindForkPoint(<<Genesis, PureBlock(1), PureBlock(2), PureBlock(3)>>,
                     <<Genesis, PureBlock(1), PureBlock(2), PureBlock(4)>>) = 3

\* two 4-block chains that agree on three blocks and differ on the fourth
C9_Witness ==
    /\ pc = "fork_done"
    /\ Len(public) = 4 /\ Len(private) = 4
    /\ \A i \in 1 .. 3 : public[i].hash = private[i].hash
    /\ public[4].hash # private[4].hash
    /\ ret = 3

\* C10: the report's figures are functions of the final state: the actual
\* reward is the number of ATTACKER blocks in the public chain, the expected
\* reward is attacker_hashrate * total_blocks, the profit is their difference
\* (all in units of 1/HashScale block), the verdict is "profitable" exactly
\* when profit > 0; making the report changes neither chains nor counters.
C10_ReportPure ==
    /\ [](report.computed =>
            /\ report.actual_attacker_reward = AttackerBlocksIn(public)
            /\ report.expected_attacker_reward =
                   config.attacker_hashrate * config.total_blocks
            /\ report.profit = report.actual_attacker_reward * HashScale
                                   - report.expected_attacker_reward
            /\ (report.verdict = "profitable") <=> (report.profit > 0))
    /\ [][report' # report => sim' = sim /\ config' = config]_vars

\* a report made after a run in which the attacker mined
C10_Witness ==
    /\ pc = "done"
    /\ report.computed
    /\ sim.attacker_blocks_mined >= 2
    /\ sim.honest_blocks_mined >= 1
    /\ report.verdict = "not profitable"

\* the values of the final report: the statistics, the reward figures and
\* the length of the public chain
ReportValues(s, rep) ==
    << s.attacker_blocks_mined, s.honest_blocks_mined,
       s.attacker_blocks_in_main_chain, s.honest_blocks_in_main_chain,
       s.reorgs, Len(s.public_chain), rep >>

C12_WinBranch ==
    [][(pc = "loop" /\ pc' = "loop" /\ round' = round) =>
          /\ Len(private) > Len(public)
          /\ sim'.attacker_blocks_in_main_chain =
                 sim.attacker_blocks_in_main_chain
                     + (Len(private) - FindForkPoint(public, private))
          /\ sim'.reorgs = sim.reorgs + 1
          /\ sim'.public_chain = private
          /\ sim'.attacker_chain = private
          /\ sim'.honest_blocks_in_main_chain = sim.honest_blocks_in_main_chain
          /\ sim'.attacker_blocks_mined = sim.attacker_blocks_mined
          /\ sim'.honest_blocks_mined = sim.honest_blocks_mined]_vars

\* a second release has added its 2 blocks to the 1 block of the first
C12_Witness ==
    /\ pc = "loop"
    /\ sim.reorgs = 2
    /\ sim.attacker_blocks_in_main_chain = 3
    /\ sim.attacker_blocks_mined = 3
    /\ public = private

\* C13: an honest round whose appended block makes the public chain at least
\* as long as the private chain ends with the private chain equal to the
\* public chain and honest_blocks_in_main_chain set to len(public) minus the
\* ATTACKER blocks in it; reorgs and attacker_blocks_in_main_chain keep
\* their values.
C13_AbandonBranch ==
    [][(actors' = Append(actors, "H") /\ Len(public) + 1 >= Len(private)) =>
          /\ sim'.attacker_chain = sim'.public_chain
          /\ sim'.honest_blocks_in_main_chain =
                 Len(sim'.public_chain) - AttackerBlocksIn(sim'.public_chain)
          /\ sim'.reorgs = sim.reorgs
          /\ sim'.attacker_blocks_in_main_chain =
                 sim.attacker_blocks_in_main_chain]_vars

\* a tie abandonment (figure 2) followed by a second abandonment: the figure
\* is 3, not 2 + 3
C13_Witness ==
    /\ actors = <<"A", "H", "H">>
    /\ private = public
    /\ Len(public) = 3
    /\ sim.honest_blocks_in_main_chain = 3

\* C14: an attacker round appends one ATTACKER block to the private chain
\* and adds 1 to attacker_blocks_mined; the public chain and the other four
\* counters keep their values, also right after an abandonment made the
\* private chain a copy of the public chain.
C14_AttackerRoundFrame ==
    [][actors' = Append(actors, "A") =>
          /\ Len(sim'.attacker_chain) = Len(private) + 1
          /\ SubSeq(sim'.attacker_chain, 1, Len(private)) = private
          /\ Last(sim'.attacker_chain).miner = AttackerName
          /\ sim'.attacker_blocks_mined = sim.attacker_blocks_mined + 1
          /\ sim'.public_chain = public
          /\ sim'.honest_blocks_mined = sim.honest_blocks_mined
          /\ sim'.attacker_blocks_in_main_chain =
                 sim.attacker_blocks_in_main_chain
          /\ sim'.honest_blocks_in_main_chain = sim.honest_blocks_in_main_chain
          /\ sim'.reorgs = sim.reorgs]_vars

\* an attacker round right after the abandonment of round 2
C14_Witness ==
    /\ actors = <<"A", "H", "A">>
    /\ Len(private) = 3
    /\ Len(public) = 2
    /\ private[2] = public[2]
    /\ private[3].miner = AttackerName
    /\ sim.honest_blocks_in_main_chain = 2

ParentsLinked(chain) ==
    \A i \in 2 .. Len(chain) : chain[i].prev_hash = chain[i - 1].hash

\* C15: in both chains every block after the first names the hash of its
\* predecessor as prev_hash, also after the private chain was reset to a
\* copy of the public chain and extended again.
C15_ParentLinkage ==
    Started => ParentsLinked(public) /\ ParentsLinked(private)

\* the private chain was reset in round 2 and extended in round 3
C15_Witness ==
    /\ actors = <<"A", "H", "A">>
    /\ Len(private) = 3
    /\ private[2].miner # AttackerName
    /\ private[3].miner = AttackerName
    /\ private[3].prev_hash = public[2].hash

\* the blocks held by the two chains
ChainBlocks ==
    {public[i] : i \in 1 .. Len(public)} \cup {private[i] : i \in 1 .. Len(private)}

\* C16: two blocks that differ in height, parent id, nonce or miner have
\* different ids.
C16_UniqueIds ==
    \A b1 \in ChainBlocks, b2 \in ChainBlocks :
        (\/ b1.height # b2.height
         \/ b1.prev_hash # b2.prev_hash
         \/ b1.nonce # b2.nonce
         \/ b1.miner # b2.miner) => b1.hash # b2.hash

\* C17: after every round the private chain is at least as long as the
\* public chain.
C17_Withholding ==
    Started => Len(private) >= Len(public)

\* two honest rounds from genesis: in each the appended block made the public
\* chain longer than the private chain until the abandonment reset it
C17_Witness ==
    /\ actors = <<"H", "H">>
    /\ Len(public) = 3
    /\ Len(private) = 3

\* C18: reorgs and attacker_blocks_in_main_chain are 0 and the public chain
\* holds no ATTACKER block in every reachable state.
C18_WinUnreachable ==
    /\ sim.reorgs = 0
    /\ sim.attacker_blocks_in_main_chain = 0
    /\ AttackerBlocksIn(public) = 0

\* an honest round has ended with the private chain still ahead: the release
\* routine was not entered
C18_Witness ==
    /\ actors = <<"A", "A", "H">>
    /\ Len(private) = 3
    /\ Len(public) = 2
    /\ sim.reorgs = 0

\* C19: from genesis on the public chain has 1 + honest_blocks_mined blocks,
\* and every step leaves the previous public chain as a prefix of the new one.
C19_PublicAppendOnly ==
    [][pc' # "constructed" =>
          /\ Len(sim'.public_chain) = 1 + sim'.honest_blocks_mined
          /\ Len(public) <= Len(sim'.public_chain)
          /\ SubSeq(sim'.public_chain, 1, Len(public)) = public]_vars

\* two honest blocks appended around a withheld attacker block
C19_Witness ==
    /\ actors = <<"H", "A", "H">>
    /\ Len(public) = 3
    /\ sim.honest_blocks_mined = 2
    /\ sim.attacker_blocks_mined = 1

\* C20: for attacker_hashrate in [0,1] the report counts no ATTACKER block in
\* the public chain, the profit is -attacker_hashrate * total_blocks <= 0,
\* and the verdict is never "profitable".
C20_NeverProfitable ==
    (report.computed /\ 0 <= config.attacker_hashrate
                     /\ config.attacker_hashrate <= HashScale) =>
        /\ report.actual_attacker_reward = 0
        /\ report.profit = 0 - config.attacker_hashrate * config.total_blocks
        /\ report.profit <= 0
        /\ report.verdict # "profitable"

\* a step is a round in which the honest block made the public chain at
\* least as long as the private chain (line 178), so the private chain was
\* abandoned
AbandoningRound ==
    /\ actors' = Append(actors, "H")
    /\ Len(public) + 1 >= Len(private)

\* C21 as stated: honest_blocks_in_main_chain is 0 at genesis, an abandoning
\* round sets it to the public chain length (honest_blocks_mined + 1, the
\* genesis block included), every other step keeps it, so it never exceeds
\* the public chain length; and at the end of a round it equals the public
\* chain length exactly when that round abandoned.
C21_EqualOnlyAfterAbandoning ==
    /\ [](Started => sim.honest_blocks_in_main_chain <= Len(public))
    /\ [](pc = "constructed" => sim.honest_blocks_in_main_chain = 0)
    /\ [][IF AbandoningRound
          THEN /\ sim'.honest_blocks_in_main_chain = Len(sim'.public_chain)
               /\ sim'.honest_blocks_in_main_chain =
                      sim'.honest_blocks_mined + 1
          ELSE sim'.honest_blocks_in_main_chain =
                   sim.honest_blocks_in_main_chain]_vars
    /\ [][round' = round + 1 =>
              (sim'.honest_blocks_in_main_chain = Len(sim'.public_chain)
                   <=> AbandoningRound)]_vars

\* C21 amended: the same value and staleness, and at the end of a round the
\* counter equals the public chain length exactly when the round abandoned
\* or was an attacker round that started with the two equal; after an honest
\* round that did not abandon it is smaller.
C21_StaleHonestCount ==
    /\ [](Started => sim.honest_blocks_in_main_chain <= Len(public))
    /\ [](pc = "constructed" => sim.honest_blocks_in_main_chain = 0)
    /\ [][IF AbandoningRound
          THEN /\ sim'.honest_blocks_in_main_chain = Len(sim'.public_chain)
               /\ sim'.honest_blocks_in_main_chain =
                      sim'.honest_blocks_mined + 1
          ELSE sim'.honest_blocks_in_main_chain =
                   sim.honest_blocks_in_main_chain]_vars
    /\ [][round' = round + 1 =>
              (sim'.honest_blocks_in_main_chain = Len(sim'.public_chain)
                   <=> \/ AbandoningRound
                       \/ /\ actors' = Append(actors, "A")
                          /\ sim.honest_blocks_in_main_chain = Len(public))]_vars

\* an abandonment in round 1, then two attacker rounds that do not abandon
\* and end with the counter still equal to the public chain length
C21_Witness ==
    /\ actors = <<"H", "A", "A">>
    /\ sim.honest_blocks_in_main_chain = 2
    /\ Len(public) = 2
    /\ Len(private) = 4

====
